---- MODULE Spec2Model ----
(***************************************************************************)
(* Model of go_wget (src/main.go): downloadFile and the functions it       *)
(* calls -- checkRangeSupport, calculateConcurrency, the chunk planner,    *)
(* downloadChunk (one goroutine per chunk), showProgress (the reporter     *)
(* goroutine) and sequentialDownload.                                      *)
(*                                                                         *)
(* Strings are sequences of tokens: the delimiters "," ":" " " are tokens  *)
(* of their own, any other token is a delimiter-free piece of text.        *)
(* Files are records [orig, exists, data]; data is the sequence of bytes.  *)
(* The server and the file system are the environment: their answers are   *)
(* nondeterministic choices in the actions.                                *)
(***************************************************************************)
EXTENDS Integers, Sequences, FiniteSets, TLC

(* ---------------------------- bounds ---------------------------------- *)
MaxSize == 4        \* largest Content-Length the probe reports in Spec
MaxBody == 2        \* longest body of the sequential response
MaxPlan == 40       \* SpecPlan: sizes 1..MaxPlan, and a window around 1 GiB
PlanWindow == 6
MaxLiveSize == 3     \* SpecLive: probed sizes up to MaxLiveSize

(* ----------------------- program constants ---------------------------- *)
GiB == 1024 * 1024 * 1024      \* main.go:173
BufSize == 32 * 1024           \* main.go:203, main.go:285

(* ----------------------------- helpers -------------------------------- *)
Min(a, b) == IF a < b THEN a ELSE b
Max(a, b) == IF a > b THEN a ELSE b

\* Go's integer division truncates toward zero (b > 0)
GoDiv(a, b) == IF a >= 0 THEN a \div b ELSE -((-a) \div b)

(* --------------------- header string parsing -------------------------- *)
\* index of the first occurrence of token d in s, 0 when absent
RECURSIVE IndexFrom(_, _, _)
IndexFrom(s, d, k) ==
    IF k > Len(s) THEN 0
    ELSE IF s[k] = d THEN k
    ELSE IndexFrom(s, d, k + 1)

Index(s, d) == IndexFrom(s, d, 1)

\* strings.Split(s, sep): all pieces, empty ones included
RECURSIVE Split(_, _)
Split(s, sep) ==
    LET k == Index(s, sep)
    IN  IF k = 0 THEN <<s>>
        ELSE <<SubSeq(s, 1, k - 1)>> \o Split(SubSeq(s, k + 1, Len(s)), sep)

\* strings.SplitN(s, sep, 2): cut at the first separator only
SplitN2(s, sep) ==
    LET k == Index(s, sep)
    IN  IF k = 0 THEN <<s>>
        ELSE <<SubSeq(s, 1, k - 1), SubSeq(s, k + 1, Len(s))>>

RECURSIVE TrimLeft(_)
TrimLeft(s) ==
    IF s # <<>> /\ Head(s) = " " THEN TrimLeft(Tail(s)) ELSE s

RECURSIVE TrimRight(_)
TrimRight(s) ==
    IF s # <<>> /\ s[Len(s)] = " " THEN TrimRight(SubSeq(s, 1, Len(s) - 1)) ELSE s

\* strings.TrimSpace
TrimSpace(s) == TrimRight(TrimLeft(s))

\* the loop "for _, pair := range strings.Split(headers, ",")": the
\* <<key, value>> pairs handed to req.Header.Add, in order
RECURSIVE AddPairs(_)
AddPairs(pairs) ==
    IF pairs = <<>> THEN <<>>
    ELSE LET parts == SplitN2(Head(pairs), ":")
         IN  (IF Len(parts) = 2
                THEN << <<TrimSpace(parts[1]), TrimSpace(parts[2])>> >>
                ELSE <<>>)
             \o AddPairs(Tail(pairs))

CustomHeaders(h) == IF h # <<>> THEN AddPairs(Split(h, ",")) ELSE <<>>

\* the header strings tried as the -h option
ClaimHeader == <<"User-Agent", ":", "custom", ",", "X-Test", ":", "1">>
HeaderInputs == {<<>>, ClaimHeader}

(* ------------------------------ files --------------------------------- *)
\* What is at a path.  orig = TRUE: whatever was there before the transfer
\* (a file of any content, or none) is still there, untouched.
Pristine == [orig |-> TRUE, exists |-> FALSE, data |-> <<>>]
NoFile == [orig |-> FALSE, exists |-> FALSE, data |-> <<>>]
NewFile == [orig |-> FALSE, exists |-> TRUE, data |-> <<>>]

\* the byte of the served resource at offset k (distinct, never the 0 fill)
Byte(k) == k + 11

\* n bytes of the resource starting at offset from
Bytes(from, n) == [k \in 1..n |-> Byte(from + k - 1)]

\* file.WriteAt(buf, off) on the data of a file: holes are zero-filled
WriteAt(data, buf, off) ==
    [k \in 1..Max(Len(data), off + Len(buf)) |->
        IF k > off /\ k <= off + Len(buf) THEN buf[k - off]
        ELSE IF k <= Len(data) THEN data[k]
        ELSE 0]

(* ----------------------------- planner -------------------------------- *)
\* the policy with the 1 GiB boundary on the wrong side
calculateConcurrencyFrom(size) == IF size >= GiB THEN 8 ELSE 4

\* main.go:172-177
calculateConcurrency(size) == IF size > GiB THEN 8 ELSE 4

\* the chunk table without the correction of the last End (main.go:116-118)
PlanChunksEven(size, conc) ==
    LET chunkSize == GoDiv(size, conc)
    IN  [i \in 1..conc |-> [Start |-> (i - 1) * chunkSize,
                            End |-> (i - 1) * chunkSize + chunkSize - 1]]

\* main.go:113-120
PlanChunks(size, conc) ==
    LET chunkSize == GoDiv(size, conc)
        first == [i \in 1..conc |->
                    [Start |-> (i - 1) * chunkSize,
                     End   |-> (i - 1) * chunkSize + chunkSize - 1]]
    IN  [first EXCEPT ![conc].End = size - 1]

(* ------------------------------ errors -------------------------------- *)
NoErr == [kind |-> "none", idx |-> -1, cause |-> ""]
Ok == [kind |-> "ok", idx |-> -1, cause |-> ""]
Err(kind, cause) == [kind |-> kind, idx |-> -1, cause |-> cause]
\* fmt.Errorf("分块%d错误: %v", idx, err)
ChunkErr(i, cause) == [kind |-> "chunk", idx |-> i, cause |-> cause]


(* ------------------------------ state --------------------------------- *)
VARIABLES
    headers,       \* the -h header string (input)
    verbose,       \* the -v flag (input)
    pc,            \* where downloadFile is
    mode,          \* "none", "seq" or "chunked"
    result,        \* what downloadFile returns (NoErr while running)
    supportRange,  \* checkRangeSupport's results
    fileSize,
    outFile,       \* the file at <output>
    tmpFile,       \* the file at <output>.tmp
    concurrency,
    chunks,
    launched,      \* chunk goroutines started so far
    ctxDone,       \* ctx cancelled
    errChan,       \* buffered channel of capacity 1
    errClosed,
    wg,            \* the WaitGroup counter
    downloaded,    \* the shared (chunked) or local (sequential) byte counter
    written,       \* the number of bytes the WriteAt calls have stored so far
    tpc,           \* per chunk goroutine: position
    tcur,          \* per chunk goroutine: current (file offset of next write)
    tlen,          \* per chunk goroutine: length of the response body
    tgot,          \* per chunk goroutine: body bytes read so far
    tn,            \* per chunk goroutine: n of the read being processed
    tpend,         \* per chunk goroutine: err of the read being processed
    terr,          \* per chunk goroutine: the error downloadChunk returned
    rpc,           \* showProgress goroutine: "off", "run", "stopped"
    requests,      \* every request sent so far
    seqBody,       \* body of the sequential response
    seqGot,        \* sequential: body bytes read so far
    seqFault,      \* sequential: os.Create, a Read or a Write failed
    seq200,        \* sequential: the GET was answered with status 200
    serverExact,   \* every 206 answer so far had exactly the requested span
    env,           \* the environment of the chunk goroutines: "faulty" or "sloppy"
    renamed        \* what os.Rename answered: "none" (not called), "ok", "failed"

inputVars == <<headers, verbose>>
probeVars == <<supportRange, fileSize>>
planVars == <<concurrency, chunks, launched>>
fileVars == <<outFile, tmpFile>>
syncVars == <<ctxDone, errChan, errClosed, wg>>
taskVars == <<tpc, tcur, tlen, tgot, tn, tpend, terr>>
repVars == <<rpc>>
seqVars == <<seqBody, seqGot, seqFault, seq200>>
envVars == <<serverExact, env, renamed>>

vars == <<inputVars, pc, mode, result, probeVars, planVars, fileVars, syncVars,
          downloaded, written, taskVars, repVars, requests, seqVars, envVars>>

\* Content-Length values the probe may report (-1: header absent)
ProbeSizes == -1..MaxSize

BodyBytes == {1, 2}
TenBytes == [k \in 1..10 |-> k]
Bodies == UNION {[1..n -> BodyBytes] : n \in 0..MaxBody} \cup {TenBytes}

\* inclusive span of a chunk, in bytes (0 when End < Start)
Span(c) == Max(0, c.End - c.Start + 1)

Request(method, range, h) == [method |-> method, range |-> range, hdr |-> h]

Init ==
    /\ headers \in HeaderInputs
    /\ verbose \in BOOLEAN
    /\ pc = "parse"
    /\ mode = "none"
    /\ result = NoErr
    /\ supportRange = FALSE
    /\ fileSize = 0
    /\ outFile = Pristine
    /\ tmpFile = Pristine
    /\ concurrency = 0
    /\ chunks = <<>>
    /\ launched = 0
    /\ ctxDone = FALSE
    /\ errChan = <<>>
    /\ errClosed = FALSE
    /\ wg = 0
    /\ downloaded = 0
    /\ written = 0
    /\ tpc = <<>>
    /\ tcur = <<>>
    /\ tlen = <<>>
    /\ tgot = <<>>
    /\ tn = <<>>
    /\ tpend = <<>>
    /\ terr = <<>>
    /\ rpc = "off"
    /\ requests = {}
    /\ seqBody = <<>>
    /\ seqGot = 0
    /\ seqFault = FALSE
    /\ seq200 = FALSE
    /\ serverExact = TRUE
    /\ env \in {"faulty", "sloppy"}
    /\ renamed = "none"

(* --------------------------- downloadFile ----------------------------- *)
\* main.go:60-63: url.ParseRequestURI fails
ParseURLFail ==
    /\ pc = "parse"
    /\ pc' = "done"
    /\ result' = Err("url", "")
    /\ UNCHANGED <<written, inputVars, mode, probeVars, planVars, fileVars, syncVars,
                   downloaded, taskVars, repVars, requests, seqVars, envVars>>

ParseURLOk ==
    /\ pc = "parse"
    /\ pc' = "probe"
    /\ UNCHANGED <<written, inputVars, mode, result, probeVars, planVars, fileVars, syncVars,
                   downloaded, taskVars, repVars, requests, seqVars, envVars>>

\* the request checkRangeSupport builds (main.go:158): no header is added
ProbeRequest == Request("HEAD", <<>>, <<>>)

\* going on to the temporary file although the probe returned an error
AfterProbeErrorIgnored == "create"

\* where downloadFile goes when checkRangeSupport returns an error (main.go:81-83)
AfterProbeError == "done"

\* main.go:80-83 with 159-167: the HEAD request cannot be sent, or it is
\* answered with a status other than 200
ProbeFail ==
    /\ pc = "probe"
    /\ requests' = requests \cup {ProbeRequest}
    /\ \E cause \in {"send", "status"} : result' = Err("probe", cause)
    /\ pc' = AfterProbeError
    /\ UNCHANGED <<written, inputVars, mode, probeVars, planVars, fileVars, syncVars,
                   downloaded, taskVars, repVars, seqVars, envVars>>

\* the branch of main.go:86: TRUE when the sequential path is taken
TakeSequential(sr, size) == ~sr

\* main.go:80-88 with 169: the probe answers 200; the branch on supportRange
ProbeOk ==
    /\ pc = "probe"
    /\ requests' = requests \cup {ProbeRequest}
    /\ \E sr \in BOOLEAN, size \in ProbeSizes :
        /\ supportRange' = sr
        /\ fileSize' = size
        /\ pc' = IF TakeSequential(sr, size) THEN "seqReq" ELSE "create"
        /\ mode' = IF TakeSequential(sr, size) THEN "seq" ELSE "chunked"
    /\ UNCHANGED <<written, inputVars, result, planVars, fileVars, syncVars,
                   downloaded, taskVars, repVars, seqVars, envVars>>

\* a create that does not truncate: a stale byte stays in the file
CreateStale(f) == [orig |-> FALSE, exists |-> TRUE, data |-> <<0>>]

\* what os.Create leaves at a path, whatever was there
Create(f) == NewFile

\* a cleanup that leaves the file where it is
RemoveNothing(f) == f

\* what os.Remove leaves at a path
Remove(f) == NoFile

\* main.go:91-95: os.Create(tmpFile) fails
CreateTmpFail ==
    /\ pc = "create"
    /\ result' = Err("create", "")
    /\ pc' = "done"
    /\ UNCHANGED <<written, inputVars, mode, probeVars, planVars, fileVars, syncVars,
                   downloaded, taskVars, repVars, requests, seqVars, envVars>>

\* main.go:91-99: os.Create(tmpFile) creates or truncates the file
CreateTmpOk ==
    /\ pc = "create"
    /\ tmpFile' = Create(tmpFile)
    /\ pc' = "plan"
    /\ UNCHANGED <<written, inputVars, mode, result, probeVars, planVars, outFile, syncVars,
                   downloaded, taskVars, repVars, requests, seqVars, envVars>>

\* main.go:102-120: the context, the channel, the counter and the chunks
Plan ==
    /\ pc = "plan"
    /\ LET conc == calculateConcurrency(fileSize)
       IN  /\ concurrency' = conc
           /\ chunks' = PlanChunks(fileSize, conc)
           /\ tpc' = [i \in 1..conc |-> "idle"]
           /\ tcur' = [i \in 1..conc |-> 0]
           /\ tlen' = [i \in 1..conc |-> 0]
           /\ tgot' = [i \in 1..conc |-> 0]
           /\ tn' = [i \in 1..conc |-> 0]
           /\ tpend' = [i \in 1..conc |-> "nil"]
           /\ terr' = [i \in 1..conc |-> NoErr]
    /\ pc' = "progress"
    /\ UNCHANGED <<written, inputVars, mode, result, probeVars, launched, fileVars, syncVars,
                   downloaded, repVars, requests, seqVars, envVars>>

\* main.go:123-125
StartProgress ==
    /\ pc = "progress"
    /\ rpc' = IF verbose THEN "run" ELSE "off"
    /\ pc' = "launch"
    /\ UNCHANGED <<written, inputVars, mode, result, probeVars, planVars, fileVars, syncVars,
                   downloaded, taskVars, requests, seqVars, envVars>>

\* main.go:128-140: the launch loop: wg.Add(1) and a goroutine per chunk
Launch ==
    /\ pc = "launch"
    /\ wg' = wg + concurrency
    /\ launched' = concurrency
    /\ tpc' = [i \in 1..concurrency |-> "req"]
    /\ pc' = "wait"
    /\ UNCHANGED <<written, inputVars, mode, result, probeVars, concurrency, chunks,
                   fileVars, ctxDone, errChan, errClosed, downloaded,
                   tcur, tlen, tgot, tn, tpend, terr, repVars, requests,
                   seqVars, envVars>>

\* main.go:142-143: wg.Wait() returns, close(errChan)
Wait ==
    /\ pc = "wait"
    /\ wg = 0
    /\ errClosed' = TRUE
    /\ pc' = "recv"
    /\ UNCHANGED <<written, inputVars, mode, result, probeVars, planVars, fileVars,
                   ctxDone, errChan, wg, downloaded, taskVars, repVars, requests,
                   seqVars, envVars>>

\* a receive that always yields nil
ReceivedNil(ch) == NoErr

\* "<-errChan" on the closed channel: the buffered error, or nil when empty
Received(ch) == IF ch # <<>> THEN Head(ch) ELSE NoErr

\* a test that takes every received value for nil
IsErrNever(e) == FALSE

\* "err != nil" (main.go:145)
IsErr(e) == e # NoErr

\* main.go:145-147
Recv ==
    /\ pc = "recv"
    /\ errClosed
    /\ IF IsErr(Received(errChan))
         THEN /\ result' = Received(errChan)
              /\ pc' = "defer"
         ELSE /\ pc' = "rename"
              /\ UNCHANGED result
    /\ errChan' = IF errChan # <<>> THEN Tail(errChan) ELSE errChan
    /\ UNCHANGED <<written, inputVars, mode, probeVars, planVars, fileVars,
                   ctxDone, errClosed, wg, downloaded, taskVars, repVars, requests,
                   seqVars, envVars>>

\* main.go:150-152: os.Rename fails
RenameFail ==
    /\ pc = "rename"
    /\ renamed' = "failed"
    /\ result' = Err("rename", "")
    /\ pc' = "defer"
    /\ UNCHANGED <<written, inputVars, mode, probeVars, planVars, fileVars, syncVars,
                   downloaded, taskVars, repVars, requests, seqVars, serverExact, env>>

\* main.go:150-154: os.Rename replaces <output> by the temporary file
RenameOk ==
    /\ pc = "rename"
    /\ renamed' = "ok"
    /\ outFile' = tmpFile
    /\ tmpFile' = NoFile
    /\ result' = Ok
    /\ pc' = "defer"
    /\ UNCHANGED <<written, inputVars, mode, probeVars, planVars, syncVars,
                   downloaded, taskVars, repVars, requests, seqVars, serverExact, env>>

\* main.go:103: the deferred cancel() runs first
DeferCancel ==
    /\ pc = "defer"
    /\ ctxDone' = TRUE
    /\ pc' = "cleanup"
    /\ UNCHANGED <<written, inputVars, mode, result, probeVars, planVars, fileVars,
                   errChan, errClosed, wg, downloaded, taskVars, repVars, requests,
                   seqVars, envVars>>

\* main.go:96-99: the deferred fd.Close() and os.Remove(tmpFile)
DeferRemove ==
    /\ pc = "cleanup"
    /\ tmpFile' = Remove(tmpFile)
    /\ pc' = "done"
    /\ UNCHANGED <<written, inputVars, mode, result, probeVars, planVars, outFile, syncVars,
                   downloaded, taskVars, repVars, requests, seqVars, envVars>>

(* --------------------------- downloadChunk ---------------------------- *)
\* the goroutine of chunks[i] is index i-1 of the Go slice
GoIdx(i) == i - 1

\* main.go:180-191: the ranged GET with the custom headers added
ChunkRequestOf(c, h) == Request("GET", <<c.Start, c.End>>, CustomHeaders(h))

\* a send that always takes the default branch of the select
DropSend(ch, e) == ch

\* a send that replaces what the slot holds
ReplaceSend(ch, e) == <<e>>

\* the non-blocking send "select { case errChan <- e: default: }" on a
\* channel of capacity 1 (main.go:107, 133-136)
TrySend(ch, e) == IF Len(ch) < 1 THEN Append(ch, e) ELSE ch

\* a goroutine that returns without the deferred wg.Done()
WgDoneMissing(n) == n

\* wg.Done() (main.go:131): the counter of the WaitGroup after the call
WgDone(n) == n - 1

\* downloadChunk of goroutine i returns e and its locals no longer exist;
\* the goroutine then hands an error to errChan and cancels, and in any
\* case runs the deferred wg.Done() (main.go:131-138)
ChunkReturn(i, e) ==
    /\ tpc' = [tpc EXCEPT ![i] = "done"]
    /\ errChan' = IF e = NoErr THEN errChan ELSE TrySend(errChan, e)
    /\ ctxDone' = (ctxDone \/ e # NoErr)
    /\ wg' = WgDone(wg)
    /\ terr' = [terr EXCEPT ![i] = e]
    /\ tcur' = [tcur EXCEPT ![i] = 0]
    /\ tlen' = [tlen EXCEPT ![i] = 0]
    /\ tgot' = [tgot EXCEPT ![i] = 0]
    /\ tn' = [tn EXCEPT ![i] = 0]
    /\ tpend' = [tpend EXCEPT ![i] = "nil"]

\* Two kinds of environment are explored.  "faulty": ranged requests, reads
\* and writes may fail, any number of them, and every 206 body has exactly
\* the requested span.  "sloppy": nothing fails in the chunk goroutines, and
\* one 206 body of the transfer may be one byte shorter or longer than the
\* requested span.
MayFail == env = "faulty"

\* body lengths a server may answer the ranged request for chunk c with
ServerLens(c) ==
    IF env = "sloppy" /\ serverExact
      THEN {Span(c), Max(0, Span(c) - 1), Span(c) + 1}
      ELSE {Span(c)}

\* main.go:193-196, 199-201: client.Do fails, or the status is not 206
ChunkRequestFail(i) ==
    /\ tpc[i] = "req"
    /\ MayFail
    /\ requests' = requests \cup {ChunkRequestOf(chunks[i], headers)}
    /\ \E cause \in {"send", "status"} : ChunkReturn(i, ChunkErr(GoIdx(i), cause))
    /\ UNCHANGED <<written, inputVars, pc, mode, result, probeVars, planVars, fileVars,
                   errClosed, downloaded, repVars, seqVars, envVars>>

\* main.go:193-204: status 206; the server chooses the body's length
ChunkRequestOk(i) ==
    /\ tpc[i] = "req"
    /\ requests' = requests \cup {ChunkRequestOf(chunks[i], headers)}
    /\ \E len \in ServerLens(chunks[i]) :
        /\ tlen' = [tlen EXCEPT ![i] = len]
        /\ serverExact' = (serverExact /\ len = Span(chunks[i]))
    /\ tcur' = [tcur EXCEPT ![i] = chunks[i].Start]
    /\ tpc' = [tpc EXCEPT ![i] = "read"]
    /\ UNCHANGED <<written, inputVars, pc, mode, result, probeVars, planVars, fileVars,
                   syncVars, downloaded, tgot, tn, tpend, terr, repVars, seqVars, env,
                   renamed>>

\* what a Read of a stream with rem bytes left may return: <<n, err>>.
\* io.EOF comes with or after the last bytes.  An error comes with n = 0: a
\* Read returning bytes and an error leaves what that Read followed by a
\* failing one leaves.
ReadResults(rem) ==
    {r \in (0..Min(rem, BufSize)) \X {"nil", "EOF", "err"} :
        /\ r[2] = "EOF" => r[1] = rem
        /\ r[2] = "nil" => r[1] > 0
        /\ r[2] = "err" => r[1] = 0}

\* main.go:207-212: resp.Body.Read returns n > 0 bytes, WriteAt stores them
ChunkReadWrite(i) ==
    /\ tpc[i] = "read"
    /\ \E r \in ReadResults(tlen[i] - tgot[i]) :
        /\ r[1] > 0
        /\ tmpFile' = [tmpFile EXCEPT !.data =
                          WriteAt(@, Bytes(chunks[i].Start + tgot[i], r[1]), tcur[i])]
        /\ tgot' = [tgot EXCEPT ![i] = @ + r[1]]
        /\ tn' = [tn EXCEPT ![i] = r[1]]
        /\ tpend' = [tpend EXCEPT ![i] = r[2]]
        /\ written' = written + r[1]
    /\ tpc' = [tpc EXCEPT ![i] = "add"]
    /\ UNCHANGED <<inputVars, pc, mode, result, probeVars, planVars, outFile,
                   syncVars, downloaded, tcur, tlen, terr, repVars, requests,
                   seqVars, envVars>>

\* main.go:207-212: resp.Body.Read returns n > 0 bytes, WriteAt fails
ChunkWriteFail(i) ==
    /\ tpc[i] = "read"
    /\ tlen[i] - tgot[i] > 0
    /\ MayFail
    /\ ChunkReturn(i, ChunkErr(GoIdx(i), "write"))
    /\ UNCHANGED <<written, inputVars, pc, mode, result, probeVars, planVars, fileVars,
                   errClosed, downloaded, repVars, requests, seqVars,
                   envVars>>

\* a plain store of the last count in place of the atomic add
StoreInt64(v, n) == n

\* an update that counts the write, not its bytes
AddOne(v, n) == v + 1

\* atomic.AddInt64(downloaded, n): the new value of the counter
AddInt64(v, n) == v + n

\* main.go:213-221: atomic.AddInt64, current += n, then the read's err
ChunkAdd(i) ==
    /\ tpc[i] = "add"
    /\ downloaded' = AddInt64(downloaded, tn[i])
    /\ CASE tpend[i] = "nil" ->
              /\ tcur' = [tcur EXCEPT ![i] = @ + tn[i]]
              /\ tn' = [tn EXCEPT ![i] = 0]
              /\ tpc' = [tpc EXCEPT ![i] = "read"]
              /\ UNCHANGED <<tlen, tgot, tpend, terr, errChan, ctxDone, wg>>
         [] tpend[i] = "EOF" -> ChunkReturn(i, NoErr)
         [] OTHER -> ChunkReturn(i, ChunkErr(GoIdx(i), "read"))
    /\ UNCHANGED <<written, inputVars, pc, mode, result, probeVars, planVars, fileVars,
                   errClosed, repVars, requests, seqVars, envVars>>

\* main.go:207, 216-221: Read returns 0 bytes and io.EOF: downloadChunk returns nil
ChunkEOF(i) ==
    /\ tpc[i] = "read"
    /\ tlen[i] - tgot[i] = 0
    /\ ChunkReturn(i, NoErr)
    /\ UNCHANGED <<written, inputVars, pc, mode, result, probeVars, planVars, fileVars,
                   errClosed, downloaded, repVars, requests, seqVars,
                   envVars>>

\* main.go:207, 216-221: Read returns 0 bytes and an error
ChunkReadFail(i) ==
    /\ tpc[i] = "read"
    /\ MayFail
    /\ ChunkReturn(i, ChunkErr(GoIdx(i), "read"))
    /\ UNCHANGED <<written, inputVars, pc, mode, result, probeVars, planVars, fileVars,
                   errClosed, downloaded, repVars, requests, seqVars,
                   envVars>>

(* --------------------------- showProgress ----------------------------- *)
\* main.go:233-241: a tick: load the counter and print a line; nothing of
\* the transfer changes
ProgressTick ==
    /\ rpc = "run"
    /\ UNCHANGED vars

\* a reporter that does not return when the context is done
ProgressStopIgnored ==
    /\ rpc = "run"
    /\ ctxDone
    /\ UNCHANGED vars

\* main.go:243-245
ProgressStop ==
    /\ rpc = "run"
    /\ ctxDone
    /\ rpc' = "stopped"
    /\ UNCHANGED <<written, inputVars, pc, mode, result, probeVars, planVars, fileVars,
                   syncVars, downloaded, taskVars, requests, seqVars, envVars>>

(* ------------------------- sequentialDownload ------------------------- *)
\* main.go:251-264: the unranged GET with the custom headers added
SeqRequestOf(h) == Request("GET", <<>>, CustomHeaders(h))

\* main.go:266-274: client.Do fails, or the status is not 200
SeqRequestFail ==
    /\ pc = "seqReq"
    /\ requests' = requests \cup {SeqRequestOf(headers)}
    /\ \E cause \in {"send", "status"} : result' = Err("seq", cause)
    /\ pc' = "done"
    /\ UNCHANGED <<written, inputVars, mode, probeVars, planVars, fileVars, syncVars,
                   downloaded, taskVars, repVars, seqVars, envVars>>

\* main.go:266-274: status 200 with some body
SeqRequestOk ==
    /\ pc = "seqReq"
    /\ requests' = requests \cup {SeqRequestOf(headers)}
    /\ seqBody' \in Bodies
    /\ seq200' = TRUE
    /\ pc' = "seqCreate"
    /\ UNCHANGED <<written, inputVars, mode, result, probeVars, planVars, fileVars, syncVars,
                   downloaded, taskVars, repVars, seqGot, seqFault, envVars>>

\* main.go:276-279: os.Create(filename) fails
SeqCreateFail ==
    /\ pc = "seqCreate"
    /\ result' = Err("seq", "create")
    /\ seqFault' = TRUE
    /\ pc' = "done"
    /\ UNCHANGED <<written, inputVars, mode, probeVars, planVars, fileVars, syncVars,
                   downloaded, taskVars, repVars, requests, seqBody, seqGot, seq200,
                   envVars>>

\* main.go:276-285
SeqCreateOk ==
    /\ pc = "seqCreate"
    /\ outFile' = Create(outFile)
    /\ pc' = "seqRead"
    /\ UNCHANGED <<written, inputVars, mode, result, probeVars, planVars, tmpFile, syncVars,
                   downloaded, taskVars, repVars, requests, seqVars, envVars>>

\* a write that puts each buffer in front of what the file holds
WriteFront(data, buf) == buf \o data

\* file.Write(buf) on a file written only through this handle: the bytes
\* follow those already written
Write(data, buf) == data \o buf

\* main.go:287-302: one iteration: Read n > 0 bytes, Write them, count them.
\* "_, err = file.Write(buf[:n])" overwrites the read's err with nil, so the
\* loop always goes on to the next Read, which reports the end of the body.
SeqReadWrite ==
    /\ pc = "seqRead"
    /\ \E r \in ReadResults(Len(seqBody) - seqGot) :
        /\ r[1] > 0
        /\ outFile' = [outFile EXCEPT !.data =
                          Write(@, SubSeq(seqBody, seqGot + 1, seqGot + r[1]))]
        /\ seqGot' = seqGot + r[1]
        /\ downloaded' = downloaded + r[1]
    /\ pc' = "seqRead"
    /\ UNCHANGED <<written, inputVars, mode, result, probeVars, planVars, tmpFile, syncVars,
                   taskVars, repVars, requests, seqBody, seqFault, seq200, envVars>>

\* main.go:287-292: Read n > 0 bytes, Write fails after storing k < n of them
SeqWriteFail ==
    /\ pc = "seqRead"
    /\ \E r \in ReadResults(Len(seqBody) - seqGot) :
        /\ r[1] > 0
        /\ \E k \in 0..(r[1] - 1) :
            outFile' = [outFile EXCEPT !.data =
                           Write(@, SubSeq(seqBody, seqGot + 1, seqGot + k))]
        /\ seqGot' = seqGot + r[1]
    /\ result' = Err("seq", "write")
    /\ seqFault' = TRUE
    /\ pc' = "done"
    /\ UNCHANGED <<written, inputVars, mode, probeVars, planVars, tmpFile, syncVars,
                   downloaded, taskVars, repVars, requests, seqBody, seq200, envVars>>

\* main.go:287, 303-310: Read returns 0 bytes and io.EOF
SeqEOF ==
    /\ pc = "seqRead"
    /\ seqGot = Len(seqBody)
    /\ result' = Ok
    /\ pc' = "done"
    /\ UNCHANGED <<written, inputVars, mode, probeVars, planVars, fileVars, syncVars,
                   downloaded, taskVars, repVars, requests, seqVars, envVars>>

\* main.go:287, 303-308: Read returns 0 bytes and an error
SeqReadFail ==
    /\ pc = "seqRead"
    /\ result' = Err("seq", "read")
    /\ seqFault' = TRUE
    /\ pc' = "done"
    /\ UNCHANGED <<written, inputVars, mode, probeVars, planVars, fileVars, syncVars,
                   downloaded, taskVars, repVars, requests, seqBody, seqGot, seq200,
                   envVars>>

(* --------------------------- specifications --------------------------- *)
Tasks == DOMAIN tpc

Next ==
    \/ ParseURLFail
    \/ ParseURLOk
    \/ ProbeFail
    \/ ProbeOk
    \/ CreateTmpFail
    \/ CreateTmpOk
    \/ Plan
    \/ StartProgress
    \/ Launch
    \/ Wait
    \/ Recv
    \/ RenameFail
    \/ RenameOk
    \/ DeferCancel
    \/ DeferRemove
    \/ \E i \in Tasks : ChunkRequestFail(i)
    \/ \E i \in Tasks : ChunkRequestOk(i)
    \/ \E i \in Tasks : ChunkReadWrite(i)
    \/ \E i \in Tasks : ChunkWriteFail(i)
    \/ \E i \in Tasks : ChunkAdd(i)
    \/ \E i \in Tasks : ChunkEOF(i)
    \/ \E i \in Tasks : ChunkReadFail(i)
    \/ ProgressTick
    \/ ProgressStop
    \/ SeqRequestFail
    \/ SeqRequestOk
    \/ SeqCreateFail
    \/ SeqCreateOk
    \/ SeqReadWrite
    \/ SeqWriteFail
    \/ SeqEOF
    \/ SeqReadFail

Spec == Init /\ [][Next]_vars

\* ------------------------------------------------------------------------
\* The planner on its own: downloadFile at main.go:110, just before the
\* concurrency and the chunk table are computed, for a range of probed sizes.

PlanSizes == (-1..MaxPlan) \cup {100} \cup ((GiB - PlanWindow)..(GiB + PlanWindow))

InitPlan ==
    /\ headers = ClaimHeader
    /\ verbose = FALSE
    /\ pc = "plan"
    /\ mode = "chunked"
    /\ result = NoErr
    /\ supportRange = TRUE
    /\ fileSize \in PlanSizes
    /\ outFile = Pristine
    /\ tmpFile = NewFile
    /\ concurrency = 0
    /\ chunks = <<>>
    /\ launched = 0
    /\ ctxDone = FALSE
    /\ errChan = <<>>
    /\ errClosed = FALSE
    /\ wg = 0
    /\ downloaded = 0
    /\ written = 0
    /\ tpc = <<>>
    /\ tcur = <<>>
    /\ tlen = <<>>
    /\ tgot = <<>>
    /\ tn = <<>>
    /\ tpend = <<>>
    /\ terr = <<>>
    /\ rpc = "off"
    /\ requests = {ProbeRequest}
    /\ seqBody = <<>>
    /\ seqGot = 0
    /\ seqFault = FALSE
    /\ seq200 = FALSE
    /\ serverExact = TRUE
    /\ env = "faulty"
    /\ renamed = "none"

NextPlan == Plan

SpecPlan == InitPlan /\ [][NextPlan]_vars

\* ------------------------------------------------------------------------
\* Properties

Planned == chunks # <<>>

Covering(b) == {i \in DOMAIN chunks : chunks[i].Start <= b /\ b <= chunks[i].End}

\* C1: for every totalSize > 0, also one smaller than the concurrency, the
\* planned chunks partition [0, totalSize-1]: every chunk has
\* 0 <= Start <= End <= totalSize-1, the chunks are contiguous from 0 to
\* totalSize-1, and every byte offset lies in exactly one chunk.
C1_ChunksPartition ==
    (Planned /\ fileSize > 0) =>
        /\ \A i \in DOMAIN chunks :
              /\ 0 <= chunks[i].Start
              /\ chunks[i].Start <= chunks[i].End
              /\ chunks[i].End <= fileSize - 1
        /\ chunks[1].Start = 0
        /\ chunks[Len(chunks)].End = fileSize - 1
        /\ \A i \in 1..(Len(chunks) - 1) : chunks[i + 1].Start = chunks[i].End + 1
        /\ fileSize <= MaxPlan =>
              \A b \in 0..(fileSize - 1) : Cardinality(Covering(b)) = 1

\* C8: for totalSize > 0 and chunkSize = totalSize / concurrency (integer
\* division), chunk i (counted from 0) before the last spans
\* [i*chunkSize, (i+1)*chunkSize - 1] and the last chunk starts at
\* (concurrency-1)*chunkSize and ends at totalSize - 1; a 100-byte resource
\* in 4 chunks has the ends 24, 49, 74, 99.
C8_ChunkBounds ==
    (Planned /\ fileSize > 0) =>
        LET n == Len(chunks)
            cs == fileSize \div n
        IN  /\ n = concurrency
            /\ \A i \in 1..(n - 1) :
                  chunks[i] = [Start |-> GoIdx(i) * cs, End |-> (GoIdx(i) + 1) * cs - 1]
            /\ chunks[n] = [Start |-> (n - 1) * cs, End |-> fileSize - 1]
            /\ fileSize = 100 =>
                  /\ n = 4
                  /\ [i \in 1..n |-> chunks[i].End] = <<24, 49, 74, 99>>

\* C8 case: a size above 1 GiB that 8 does not divide has been planned
C8_Witness ==
    /\ Planned
    /\ concurrency = 8
    /\ fileSize % 8 # 0
    /\ chunks[8].End = fileSize - 1

Probed == mode # "none"

\* C2: when the probe reports that ranges are not supported, or reports a
\* size of 0, the coordinator takes the sequential path and never creates
\* the <output>.tmp file.
C2_SequentialWithoutRangesOrSize ==
    (Probed /\ (~supportRange \/ fileSize = 0)) =>
        /\ mode = "seq"
        /\ tmpFile = Pristine

\* request r carries the header name: value (both single tokens)
HasHeader(r, name, value) ==
    \E k \in DOMAIN r.hdr : r.hdr[k] = << <<name>>, <<value>> >>

\* C3: with the header string "User-Agent:custom,X-Test:1", every request
\* the engine has issued (the HEAD probe, each chunk GET, the sequential
\* GET) carries User-Agent: custom and X-Test: 1.
C3_HeadersOnEveryRequest ==
    headers = ClaimHeader =>
        \A r \in requests :
            /\ HasHeader(r, "User-Agent", "custom")
            /\ HasHeader(r, "X-Test", "1")

\* C10: when the probe fails, the transfer is Done with the probe's error:
\* no GET has been issued, no chunk task and no reporter has been started,
\* and neither the output file nor the temporary file has been touched.
C10_ProbeFailureStopsEverything ==
    result.kind = "probe" =>
        /\ pc = "done"
        /\ mode = "none"
        /\ \A r \in requests : r.method # "GET"
        /\ Tasks = {}
        /\ launched = 0
        /\ rpc = "off"
        /\ outFile = Pristine
        /\ tmpFile = Pristine

\* C10 case: the HEAD request was answered with a status other than 200
C10_Witness ==
    /\ pc = "done"
    /\ result = Err("probe", "status")
    /\ requests = {ProbeRequest}

\* every chunk task has been started and has returned
AllReturned == Tasks # {} /\ \A i \in Tasks : tpc[i] = "done"

AllSucceeded == AllReturned /\ \A i \in Tasks : terr[i] = NoErr

\* task i alone failed, on a response status other than 206
OnlyBadStatus(i) ==
    /\ AllReturned
    /\ terr[i] = ChunkErr(GoIdx(i), "status")
    /\ \A j \in Tasks \ {i} : terr[j] = NoErr

\* C4: when exactly one chunk request is answered with a status other than
\* 206 and every other chunk succeeds, the transfer ends with that chunk's
\* bad-status error, the output path is left as it was (no file is created
\* there) and the temporary file has been removed.
C4_OneBadStatusAborts ==
    \A i \in Tasks :
        (pc = "done" /\ OnlyBadStatus(i)) =>
            /\ result = ChunkErr(GoIdx(i), "status")
            /\ renamed = "none"
            /\ outFile = Pristine
            /\ tmpFile = NoFile

\* C4 case: the third of four chunks got the bad status, the others wrote
\* their bytes
C4_Witness ==
    /\ pc = "done"
    /\ fileSize = 4
    /\ OnlyBadStatus(3)
    /\ downloaded = 3

\* C5: when every chunk succeeds but the rename of the temporary file to
\* the output path fails, the transfer returns the rename error, the output
\* path is left as it was, and the temporary file has been removed by the
\* time the transfer is Done.
C5_RenameFailureCleansUp ==
    (pc = "done" /\ renamed = "failed") =>
        /\ AllSucceeded
        /\ result = Err("rename", "")
        /\ outFile = Pristine
        /\ tmpFile = NoFile

\* C5 case: four chunks of one byte each succeeded and the rename failed
C5_Witness ==
    /\ pc = "done"
    /\ renamed = "failed"
    /\ fileSize = 4
    /\ downloaded = 4
    /\ AllSucceeded

\* the temporary file was created: the chunked path went past os.Create
TmpCreated == mode = "chunked" /\ result.kind # "create"

\* C6: whenever the chunked path is Done after creating the temporary file
\* (success, a fetcher failure or a rename failure), the temporary file no
\* longer exists; the output file has been placed if and only if every
\* chunk task succeeded and the transfer returned success; the rename is
\* never attempted when a chunk failed; and the cleanup after a successful
\* rename leaves the committed output in place.
C6_TmpGoneOutputIffSuccess ==
    (pc = "done" /\ TmpCreated) =>
        /\ AllReturned
        /\ tmpFile = NoFile
        /\ outFile # Pristine <=> (AllSucceeded /\ result = Ok)
        /\ ~AllSucceeded => renamed = "none"
        /\ result = Ok => (renamed = "ok" /\ outFile.exists /\ ~outFile.orig)

\* C6 case: a successful transfer of a 3-byte resource is Done and the
\* committed output is still there
C6_Witness ==
    /\ pc = "done"
    /\ TmpCreated
    /\ result = Ok
    /\ fileSize = 3
    /\ outFile.exists
    /\ tmpFile = NoFile

AfterBarrier == pc \in {"recv", "rename", "defer", "cleanup", "done"}

\* C7: when all chunk tasks report success and the server sent exactly the
\* requested bytes of a resource of totalSize > 0, the progress counter
\* equals totalSize once the barrier is passed, the file that is about to be
\* committed has totalSize bytes, and so has the committed output.
C7_AllBytesCounted ==
    (mode = "chunked" /\ AfterBarrier /\ AllSucceeded /\ serverExact /\ fileSize > 0) =>
        /\ downloaded = fileSize
        /\ pc \in {"recv", "rename"} => Len(tmpFile.data) = fileSize
        /\ renamed = "ok" => (outFile.exists /\ Len(outFile.data) = fileSize)

\* C7 case: a 4-byte resource in four chunks has been committed
C7_Witness ==
    /\ pc = "done"
    /\ AllSucceeded
    /\ serverExact
    /\ fileSize = 4
    /\ renamed = "ok"
    /\ outFile.data = Bytes(0, 4)

\* C9: when the sequential GET is answered with 200 and neither the file
\* system nor the stream fails, the output file holds exactly the bytes of
\* the response body, in order, and the transfer returns success.
C9_SequentialCopiesBody ==
    (mode = "seq" /\ pc = "done" /\ seq200 /\ ~seqFault) =>
        /\ result = Ok
        /\ outFile = [orig |-> FALSE, exists |-> TRUE, data |-> seqBody]

\* C9 case: a body of ten different bytes has been copied
C9_Witness ==
    /\ mode = "seq"
    /\ pc = "done"
    /\ seq200
    /\ ~seqFault
    /\ seqBody = TenBytes
    /\ outFile.data = TenBytes

\* ------------------------------------------------------------------------
\* The planner followed by the start of the reporter and of the chunk
\* goroutines (main.go:112-140), for the sizes of PlanSizes.

NextLaunch ==
    \/ Plan
    \/ StartProgress
    \/ Launch

SpecLaunch == InitPlan /\ [][NextLaunch]_vars

\* C11: the concurrency level is 8 when totalSize is strictly greater than
\* 2^30 bytes and 4 otherwise (2^30 itself included), and the number of chunk
\* tasks launched equals that level.
C11_ConcurrencyPolicy ==
    Planned =>
        /\ concurrency = (IF fileSize > 2^30 THEN 8 ELSE 4)
        /\ Len(chunks) = concurrency
        /\ pc = "wait" =>
              /\ launched = concurrency
              /\ wg = concurrency
              /\ Tasks = 1..concurrency
              /\ \A i \in Tasks : tpc[i] = "req"

\* C11 case: four goroutines have been started for a resource of exactly 1 GiB
C11_Witness ==
    /\ pc = "wait"
    /\ fileSize = 2^30
    /\ launched = 4
    /\ Cardinality(Tasks) = 4

\* the sequential copy loop ended on a Read or a Write error
SeqStreamFailed ==
    /\ mode = "seq"
    /\ pc = "done"
    /\ result \in {Err("seq", "read"), Err("seq", "write")}

\* C12: on the sequential path a read or write failure after k bytes of the
\* body have been written returns the error and leaves the file at the
\* output path in place, holding exactly the first k bytes of the body; no
\* temporary file and no rename is involved.
C12_SequentialPartialFile ==
    SeqStreamFailed =>
        /\ outFile.exists
        /\ ~outFile.orig
        /\ Len(outFile.data) <= Len(seqBody)
        /\ outFile.data = SubSeq(seqBody, 1, Len(outFile.data))
        /\ result = Err("seq", "read") => Len(outFile.data) = seqGot
        /\ tmpFile = Pristine
        /\ renamed = "none"

\* C12 case: a write failed after three of ten bytes had been stored
C12_Witness ==
    /\ SeqStreamFailed
    /\ result = Err("seq", "write")
    /\ seqBody = TenBytes
    /\ outFile.data = <<1, 2, 3>>

\* the cancellation signal fired while the coordinator waits at the barrier
\* (every chunk of the transfer has at least one byte)
CancelledWhileFetching == ctxDone /\ pc = "wait" /\ fileSize >= concurrency

\* C13: once the cancellation signal has fired because of a chunk failure,
\* every chunk task that is still running exits at its next read: no step
\* writes to the temporary file any more, and no task goes from a read to
\* another counted write.
C13_CancelStopsSiblings ==
    [][CancelledWhileFetching =>
          /\ tmpFile' = tmpFile
          /\ \A i \in Tasks : tpc[i] = "read" => tpc'[i] # "add"]_vars

\* the coordinator has read the recorded error and goes on to the rename or
\* to the removal of the temporary file
OutcomeEvaluated ==
    /\ mode = "chunked"
    /\ Tasks # {}
    /\ pc \in {"rename", "defer", "cleanup", "done"}

\* C14: the coordinator evaluates the outcome (reads the recorded error, then
\* renames or deletes the temporary file) only after every chunk task has
\* finished and, when verbose is set, after the reporter has finished too.
C14_BarrierIncludesReporter ==
    OutcomeEvaluated =>
        /\ AllReturned
        /\ verbose => rpc = "stopped"

Failing == {i \in Tasks : terr[i] # NoErr}

\* task i returns from downloadChunk with an error in this step
FailsNow(i) == tpc[i] # "done" /\ tpc'[i] = "done" /\ terr'[i] # NoErr

\* C15: when two or more chunk tasks fail, in any interleaving, exactly one
\* error is recorded: the slot takes the error of the task that hands off
\* first, a later failure never replaces it, a later failing task returns all
\* the same (it is not held up by the occupied slot), and the error returned
\* to the caller is the recorded one.
C15_FirstErrorWins ==
    /\ [](Len(errChan) <= 1)
    /\ []((pc = "done" /\ Failing # {}) =>
            (AllReturned /\ \E i \in Failing : result = terr[i]))
    /\ [][/\ (errChan # <<>> /\ ~errClosed) => errChan' = errChan
          /\ \A i \in Tasks :
                FailsNow(i) =>
                    /\ errChan' = IF errChan = <<>> THEN <<terr'[i]>> ELSE errChan
                    /\ wg' = wg - 1
          /\ (pc = "recv" /\ pc' # "recv" /\ errChan # <<>>) =>
                (result' = Head(errChan) /\ renamed' = "none")]_vars

\* C15 case: chunk 2 handed off first, chunk 0 failed later with another
\* error and has returned; the caller got chunk 2's error
C15_Witness ==
    /\ pc = "done"
    /\ AllReturned
    /\ terr[1] = ChunkErr(0, "read")
    /\ terr[3] = ChunkErr(2, "status")
    /\ result = terr[3]

\* offset b of the file holds a byte some WriteAt stored (holes read as 0)
Written(data, b) == b + 1 <= Len(data) /\ data[b + 1] # 0

\* task i stores the bytes of one Read in this step
WritesNow(i) == tpc[i] = "read" /\ tpc'[i] = "add"

\* C16: in a chunked transfer with totalSize > 0 (taken here with at least
\* one byte per chunk, so that every chunk is a proper range), whatever the
\* interleaving,
\* each write of chunk task i lands at the absolute offset Start_i + (bytes
\* task i has written so far), stays within [Start_i, End_i], and hits no
\* offset that another task has written (a task never returns to an offset
\* of its own, so no offset is written by two tasks).
C16_DisjointWrites ==
    [][\A i \in Tasks :
          (mode = "chunked" /\ fileSize >= concurrency /\ WritesNow(i)) =>
              LET off == tcur[i]
                  n == tn'[i]
              IN  /\ off = chunks[i].Start + tgot[i]
                  /\ chunks[i].Start <= off
                  /\ off + n - 1 <= chunks[i].End
                  /\ \A b \in off..(off + n - 1) : ~Written(tmpFile.data, b)]_vars

\* ------------------------------------------------------------------------
\* Scheduling.  The Go scheduler runs every runnable goroutine: the
\* coordinator, each chunk goroutine and the reporter keep taking steps while
\* they can.  A step of a chunk goroutine includes the server's answer, so
\* fairness of the goroutine also says that its response stream goes on
\* until it ends (end of stream or error).

CoordinatorStep ==
    \/ ParseURLFail
    \/ ParseURLOk
    \/ ProbeFail
    \/ ProbeOk
    \/ CreateTmpFail
    \/ CreateTmpOk
    \/ Plan
    \/ StartProgress
    \/ Launch
    \/ Wait
    \/ Recv
    \/ RenameFail
    \/ RenameOk
    \/ DeferCancel
    \/ DeferRemove
    \/ SeqRequestFail
    \/ SeqRequestOk
    \/ SeqCreateFail
    \/ SeqCreateOk
    \/ SeqReadWrite
    \/ SeqWriteFail
    \/ SeqEOF
    \/ SeqReadFail

ChunkStep(i) ==
    /\ i \in Tasks
    /\ \/ ChunkRequestFail(i)
       \/ ChunkRequestOk(i)
       \/ ChunkReadWrite(i)
       \/ ChunkWriteFail(i)
       \/ ChunkAdd(i)
       \/ ChunkEOF(i)
       \/ ChunkReadFail(i)

\* the goroutines a transfer of the modelled sizes can start
TaskIds == 1..calculateConcurrency(MaxSize)

Fairness ==
    /\ WF_vars(CoordinatorStep)
    /\ \A i \in TaskIds : WF_vars(ChunkStep(i))
    /\ WF_vars(ProgressStop)

\* the transfers checked for liveness: verbose, no custom headers, sizes up
\* to MaxLiveSize
InitLive == Init /\ headers = <<>> /\ verbose

NextLive == Next /\ fileSize' <= MaxLiveSize

SpecLive == InitLive /\ [][NextLive]_vars /\ Fairness

\* C17: with verbose set, the reporter eventually stops once the
\* cancellation signal has fired or all chunk tasks have completed, and it
\* never changes the result of the transfer: its steps leave the output
\* file, the temporary file, the progress counter and the recorded error as
\* they are.
C17_ReporterStopsAndIsInert ==
    /\ (rpc = "run" /\ (ctxDone \/ AllReturned)) ~> (rpc = "stopped")
    /\ [][(rpc = "run" /\ rpc' # "run") =>
            UNCHANGED <<outFile, tmpFile, downloaded, errChan, result, pc, taskVars>>]_vars

\* C17 case: all chunks succeeded, the file was committed and the reporter
\* has stopped
C17_Witness ==
    /\ verbose
    /\ rpc = "stopped"
    /\ pc = "done"
    /\ AllSucceeded
    /\ result = Ok

\* C18: under fair scheduling, with response streams that end, every chunked
\* transfer reaches Done with success or an error, for any number of failing
\* chunks: every started chunk task returns (none is held up handing off its
\* error), the barrier is released, and the read of the recorded error after
\* the barrier yields a value.
C18_ChunkedTransferTerminates ==
    /\ (mode = "chunked") ~> (pc = "done" /\ result # NoErr)
    /\ (pc = "wait") ~> (AllReturned /\ wg = 0 /\ pc \in {"rename", "defer"})

\* C18 case: all chunk tasks failed and the transfer is Done with an error
C18_Witness ==
    /\ pc = "done"
    /\ AllReturned
    /\ Failing = Tasks
    /\ result \in {terr[i] : i \in Tasks}

\* the bytes stored by a WriteAt whose atomic.AddInt64 has not run yet
RECURSIVE PendingFrom(_)
PendingFrom(i) ==
    IF i > Len(tpc) THEN 0
    ELSE (IF tpc[i] = "add" THEN tn[i] ELSE 0) + PendingFrom(i + 1)

Pending == PendingFrom(1)

\* C19: in a chunked transfer, under any interleaving of the chunk tasks, the
\* shared progress counter never decreases, equals the sum of the increments
\* of all completed per-write updates (the bytes written less those whose
\* update is still to come: no increment is lost), and never exceeds the
\* number of bytes already written to the temporary file.
C19_CounterTracksWrites ==
    /\ [](mode = "chunked" =>
            /\ downloaded = written - Pending
            /\ 0 <= downloaded
            /\ downloaded <= written)
    /\ [][mode = "chunked" => downloaded' >= downloaded]_vars

\* C19 case: two tasks have written and one of the two updates is still to
\* come
C19_Witness ==
    /\ mode = "chunked"
    /\ written = 2
    /\ downloaded = 1
    /\ Pending = 1
    /\ \E i \in Tasks : tpc[i] = "done" /\ terr[i] = NoErr /\ chunks[i].End >= chunks[i].Start

\* the chunked transfer has failed: os.Create of the temporary file, a chunk
\* task or os.Rename returned an error
ChunkedFailure ==
    /\ mode = "chunked"
    /\ \/ result = Err("create", "")
       \/ Failing # {}
       \/ renamed = "failed"

\* C20: when a chunked transfer fails (creation of the temporary file, any
\* chunk, or the rename), whatever was at the output path before the
\* transfer is left as it was: the failed transfer never truncates,
\* overwrites or deletes it, and it ends with an error.
C20_OutputUntouchedOnFailure ==
    ChunkedFailure =>
        /\ outFile = Pristine
        /\ pc = "done" => result \notin {NoErr, Ok}

\* C20 case: a transfer is Done after chunk 1 failed on a write while the
\* other chunks had stored their bytes
C20_Witness ==
    /\ pc = "done"
    /\ ChunkedFailure
    /\ Failing = {2}
    /\ terr[2] = ChunkErr(1, "write")
    /\ written = 3

====
